---- MODULE Spec2Model ----
(***************************************************************************)
(* PeerConnectionClient (examples/peerconnection/client): the signaling    *)
(* client that drives a command socket (control_socket_) and a long-poll   *)
(* socket (hanging_get_) against one HTTP server.                          *)
(*                                                                         *)
(* Bytes are one-character strings, strings are sequences of bytes, and    *)
(* positions are 0-based as in std::string (NPOS is std::string::npos).    *)
(* A size_t is kept as the signed representative of its residue modulo     *)
(* 2^64, so -1 stands for SIZE_MAX; ULe compares two of them as unsigned.  *)
(***************************************************************************)
EXTENDS Integers, Sequences, FiniteSets, TLC

\* ------------------------------------------------------------------ bytes

CR == "\r"
LF == "\n"
NPOS == 0 - 1

kCRLF == <<CR, LF>>
kCRLFCRLF == <<CR, LF, CR, LF>>
kContentLength ==
  <<CR, LF, "C", "o", "n", "t", "e", "n", "t", "-", "L", "e", "n", "g", "t", "h", ":", " ">>
kPragma == <<CR, LF, "P", "r", "a", "g", "m", "a", ":", " ">>
kConnection ==
  <<CR, LF, "C", "o", "n", "n", "e", "c", "t", "i", "o", "n", ":", " ">>
kCloseValue == <<"c", "l", "o", "s", "e">>
kByeMessage == <<"B", "Y", "E">>

Digits == <<"0", "1", "2", "3", "4", "5", "6", "7", "8", "9">>
IsDigit(c) == \E d \in 1..10 : Digits[d] = c
DigitVal(c) == (CHOOSE d \in 1..10 : Digits[d] = c) - 1
IsSpace(c) == c \in {" ", "\t", LF, CR, "\f"}

SetMin(S) == CHOOSE x \in S : \A y \in S : x <= y

\* std::string::find(pat, from): first position >= from where pat occurs.
Find(data, pat, from) ==
  LET hits == {i \in from..(Len(data) - Len(pat)) :
                 \A j \in 1..Len(pat) : data[i + j] = pat[j]}
  IN IF hits = {} THEN NPOS ELSE SetMin(hits)

\* std::string::substr(pos) and substr(pos, n).
SubstrFrom(data, pos) == SubSeq(data, pos + 1, Len(data))
Substr(data, pos, n) ==
  SubSeq(data, pos + 1, IF pos + n > Len(data) THEN Len(data) ELSE pos + n)

\* atoi(&data[pos]): leading white space, an optional sign, then digits up
\* to the first byte that is no digit (the string's terminating NUL at the end).
RECURSIVE AtoiSkip(_, _)
AtoiSkip(data, pos) ==
  IF pos < Len(data) /\ IsSpace(data[pos + 1]) THEN AtoiSkip(data, pos + 1) ELSE pos

RECURSIVE AtoiDigits(_, _, _)
AtoiDigits(data, pos, acc) ==
  IF pos < Len(data) /\ IsDigit(data[pos + 1])
    THEN AtoiDigits(data, pos + 1, 10 * acc + DigitVal(data[pos + 1]))
    ELSE acc

Atoi(data, pos) ==
  LET p == AtoiSkip(data, pos)
      neg == p < Len(data) /\ data[p + 1] = "-"
      signed == p < Len(data) /\ data[p + 1] \in {"-", "+"}
      v == AtoiDigits(data, IF signed THEN p + 1 ELSE p, 0)
  IN IF neg THEN 0 - v ELSE v

\* Unsigned comparison of two size_t values.
ULe(a, b) ==
  IF a >= 0 /\ b >= 0 THEN a <= b
  ELSE IF a >= 0 THEN TRUE
  ELSE IF b >= 0 THEN FALSE
  ELSE a <= b

\* ------------------------------------------------------------ HTTP framer

\* GetHeaderValue(data, eoh, header_pattern, size_t* value)
GetHeaderValueNum(data, eoh, header_pattern) ==
  LET found == Find(data, header_pattern, 0)
  IN IF found # NPOS /\ found < eoh
       THEN [ok |-> TRUE, value |-> Atoi(data, found + Len(header_pattern))]
       ELSE [ok |-> FALSE, value |-> 0]

\* GetHeaderValue(data, eoh, header_pattern, std::string* value)
GetHeaderValueStr(data, eoh, header_pattern) ==
  LET found == Find(data, header_pattern, 0)
  IN IF found # NPOS /\ found < eoh
       THEN LET begin == found + Len(header_pattern)
                e == Find(data, kCRLF, begin)
                end == IF e = NPOS THEN eoh ELSE e
            IN [ok |-> TRUE, value |-> Substr(data, begin, end - begin)]
       ELSE [ok |-> FALSE, value |-> <<>>]

\* A framer that takes a header without Content-Length for a response with
\* an empty body.
FramerNoLength(data) ==
  LET i == Find(data, kCRLFCRLF, 0)
      conn == GetHeaderValueStr(data, i, kConnection)
  IN [ret |-> i # NPOS, content_length |-> 0,
      close |-> (i # NPOS /\ conn.ok /\ conn.value = kCloseValue)]

\* The framing decision of ReadIntoBuffer on the accumulated data: ret is the
\* return value, close says that the socket is closed and OnClose(socket, 0)
\* is run before ReadIntoBuffer returns.
Framer(data) ==
  LET i == Find(data, kCRLFCRLF, 0)
      cl == GetHeaderValueNum(data, i, kContentLength)
      total_response_size == (i + 4) + cl.value
      conn == GetHeaderValueStr(data, i, kConnection)
  IN IF i = NPOS \/ ~cl.ok
       THEN [ret |-> FALSE, content_length |-> 0, close |-> FALSE]
       ELSE IF ULe(total_response_size, Len(data))
         THEN [ret |-> TRUE, content_length |-> cl.value,
               close |-> (conn.ok /\ conn.value = kCloseValue)]
         ELSE [ret |-> FALSE, content_length |-> cl.value, close |-> FALSE]

\* GetResponseStatus(response)
GetResponseStatus(response) ==
  LET pos == Find(response, <<" ">>, 0)
  IN IF pos # NPOS THEN Atoi(response, pos + 1) ELSE 0 - 1

\* ParseEntry(entry, &name, &id, &connected); name and id keep the caller's
\* initial values ("" and 0) when the entry has no separator.
ParseEntry(entry) ==
  LET separator == Find(entry, <<",">>, 0)
      second == IF separator = NPOS THEN NPOS ELSE Find(entry, <<",">>, separator + 1)
      name == IF separator = NPOS THEN <<>> ELSE Substr(entry, 0, separator)
  IN [ok |-> name # <<>>,
      name |-> name,
      id |-> IF separator = NPOS THEN 0 ELSE Atoi(entry, separator + 1),
      connected |-> second # NPOS /\ Atoi(entry, second + 1) # 0]

\* ------------------------------------------------- requests and responses

\* The requests the client formats with snprintf, kept by their fields.
NoData == [req |-> "", name |-> "", peer_id |-> 0, to |-> 0, content_length |-> 0, body |-> <<>>]
SignInRequest(client_name) ==
  [req |-> "GET /sign_in", name |-> client_name, peer_id |-> 0, to |-> 0,
   content_length |-> 0, body |-> <<>>]
MessageRequest(my_id, peer_id, message) ==
  [req |-> "POST /message", name |-> "", peer_id |-> my_id, to |-> peer_id,
   content_length |-> Len(message), body |-> message]
SignOutRequest(my_id) ==
  [req |-> "GET /sign_out", name |-> "", peer_id |-> my_id, to |-> 0,
   content_length |-> 0, body |-> <<>>]
WaitRequest(my_id) ==
  [req |-> "GET /wait", name |-> "", peer_id |-> my_id, to |-> 0,
   content_length |-> 0, body |-> <<>>]

\* Decimal digits of a number below 100, as the server prints Content-Length.
Itoa(n) == IF n < 10 THEN <<Digits[n + 1]>> ELSE <<Digits[(n \div 10) + 1], Digits[(n % 10) + 1]>>

\* The bytes of a server response: status line, optional Pragma, optional
\* Content-Length (of the body), optional Connection: close, blank line, body.
Response(status, pragma, with_length, close, body) ==
  <<"H", " ">> \o status
    \o (IF pragma = <<>> THEN <<>> ELSE kPragma \o pragma)
    \o (IF with_length THEN kContentLength \o Itoa(Len(body)) ELSE <<>>)
    \o (IF close THEN kConnection \o kCloseValue ELSE <<>>)
    \o kCRLFCRLF \o body

k200 == <<"2", "0", "0">>
k500 == <<"5", "0", "0">>
kSelf == <<"3">>
kOther == <<"7">>
kListing == <<"a", ",", "7", ",", "1", LF, "b", ",", "3", ",", "1", LF>>

\* What the server may answer on the command socket.
ControlResponses ==
  { Response(k200, kSelf, TRUE, TRUE, kListing),
    Response(k200, kSelf, TRUE, TRUE, <<>>),
    Response(k200, kSelf, TRUE, FALSE, <<>>),
    Response(k200, <<>>, TRUE, TRUE, kListing),
    Response(k500, <<>>, TRUE, TRUE, <<>>) }

\* What the server may deliver on the long-poll socket.
NotifyResponses ==
  { Response(k200, kSelf, TRUE, TRUE, <<"a", ",", "7", ",", "1">>),
    Response(k200, kSelf, TRUE, TRUE, <<"a", ",", "7", ",", "0">>),
    Response(k200, kSelf, TRUE, TRUE, <<"c", ",", "3", ",", "1">>),
    Response(k200, kOther, TRUE, FALSE, <<"x">>),
    Response(k200, kOther, TRUE, TRUE, kByeMessage),
    Response(k500, <<>>, TRUE, TRUE, <<>>) }

Responses(s) == IF s = "control_socket" THEN ControlResponses ELSE NotifyResponses

\* Response headers a server may send without a Content-Length header: a
\* success that asks to close, a success that keeps the connection, an error.
UnframedHeaders ==
  { Response(k200, kSelf, FALSE, TRUE, <<>>),
    Response(k200, kOther, FALSE, FALSE, <<>>),
    Response(k500, <<>>, FALSE, TRUE, <<>>) }

\* What the server may send on after such a header: body bytes, or a whole
\* response that does carry Content-Length.
FollowBytes ==
  { kListing,
    Response(k200, kSelf, TRUE, FALSE, <<>>) }

\* The byte strings made of at most n such pieces.
RECURSIVE Follows(_)
Follows(n) ==
  IF n = 0 THEN {<<>>}
  ELSE Follows(n - 1) \cup {f \o c : f \in Follows(n - 1), c \in FollowBytes}

\* Where the first read of header h and what follows it (r in all) may end:
\* after any byte up to the one past the header's end, or with everything.
UnframedCuts(h, r) == {k \in 1..Len(r) : k <= Len(h) + 1 \/ k = Len(r)}

\* --------------------------------------------------------------- bounds

\* Delayed retries that may be pending at once.
MaxTimers == 2
\* Bytes left over in a receive buffer when a new response starts to arrive.
MaxStale == 1
\* Pieces the server sends on after a response that has no Content-Length.
MaxFollow == 2

Sockets == {"control_socket", "hanging_get"}
Servers == {"", "example.org", "10.0.0.1"}
ClientNames == {"", "u"}
PeerIds == {0 - 1, 7}
Messages == {<<"x">>}

\* ---------------------------------------------------------------- state

VARIABLES
  state,              \* state_
  my_id,              \* my_id_
  peers,              \* peers_: set of <<id, name>>, one pair per id
  onconnect_data,     \* onconnect_data_
  control_data,       \* control_data_
  notification_data,  \* notification_data_
  control_socket,     \* control_socket_: "null" or its GetState()
  hanging_get,        \* hanging_get_: "null" or its GetState()
  resolver,           \* resolver_: "null", "started" or "done"
  server_address,     \* server_address_
  client_name,        \* client_name_
  timers,             \* delayed DoConnect tasks posted and not yet run
  net,                \* per socket: bytes of a response still to arrive
  wire,               \* per socket: the request written and not yet answered
  segmented,          \* whether the server delivers responses in segments
  crashed,            \* "no", "nullptr" (null socket used) or "dcheck"
  events,             \* observer callbacks fired by the last operation
  ret,                \* return value of the last operation
  last                \* the last operation and its inputs

prog == <<state, my_id, peers, onconnect_data, control_data, notification_data,
          control_socket, hanging_get, resolver, server_address, client_name, timers>>
vars == <<prog, net, wire, segmented, crashed, events, ret, last>>

\* The client object and its surroundings as one record, on which the
\* methods below are computed.
Self ==
  [state |-> state, my_id |-> my_id, peers |-> peers, onconnect_data |-> onconnect_data,
   control_data |-> control_data, notification_data |-> notification_data,
   control_socket |-> control_socket, hanging_get |-> hanging_get,
   resolver |-> resolver, server_address |-> server_address, client_name |-> client_name,
   timers |-> timers, net |-> net, wire |-> wire,
   crashed |-> "no", dcheck |-> FALSE, events |-> <<>>, ret |-> TRUE,
   complete |-> FALSE, ok |-> TRUE, peer_id |-> 0, eoh |-> 0, content_length |-> 0]

Ev(e, id, data, err) == [e |-> e, id |-> id, data |-> data, err |-> err]
Fire(m, e) == [m EXCEPT !.events = Append(@, e)]

Fault(m, kind) == IF m.crashed = "no" THEN [m EXCEPT !.crashed = kind] ELSE m
\* RTC_DCHECK(cond): a failed one aborts in a build with DCHECKs on and is
\* nothing otherwise; dcheck records that the operation met a failed one.
DCheck(m, cond) == IF cond THEN m ELSE [m EXCEPT !.dcheck = TRUE]

\* ---------------------------------------------------------- rtc::Socket

\* Socket::Close() through the unique_ptr s.
SocketClose(m, s) ==
  IF m[s] = "null" THEN Fault(m, "nullptr")
  ELSE [m EXCEPT ![s] = "CS_CLOSED", !.net[s] = <<>>, !.wire[s] = NoData]

\* Socket::Connect(server_address_) fails (SOCKET_ERROR) on a socket that is
\* not closed, or when the network refuses at once (e).
SocketConnectFails(m, s, e) == m[s] # "CS_CLOSED" \/ e
SocketConnect(m, s, e) ==
  IF m[s] = "null" THEN Fault(m, "nullptr")
  ELSE IF SocketConnectFails(m, s, e) THEN m ELSE [m EXCEPT ![s] = "CS_CONNECTING"]

\* Socket::Send(request) on a connected socket.
SocketSend(m, s, request) == [m EXCEPT !.wire[s] = request]

\* ------------------------------------------------- PeerConnectionClient

is_connected(m) == m.my_id # 0 - 1

\* Close without control_socket_->Close().
CloseKeepsControlSocket(m) ==
  LET m2 == SocketClose(m, "hanging_get")
  IN [m2 EXCEPT !.onconnect_data = NoData, !.peers = {}, !.resolver = "null",
                !.my_id = 0 - 1, !.state = "NOT_CONNECTED"]

\* Close without resolver_.reset().
CloseKeepsResolver(m) ==
  LET m1 == SocketClose(m, "control_socket")
      m2 == SocketClose(m1, "hanging_get")
  IN [m2 EXCEPT !.onconnect_data = NoData, !.peers = {},
                !.my_id = 0 - 1, !.state = "NOT_CONNECTED"]

Close(m) ==
  LET m1 == SocketClose(m, "control_socket")
      m2 == SocketClose(m1, "hanging_get")
  IN [m2 EXCEPT !.onconnect_data = NoData, !.peers = {}, !.resolver = "null",
                !.my_id = 0 - 1, !.state = "NOT_CONNECTED"]

ConnectControlSocket(m, e) ==
  LET m1 == IF m.control_socket = "null" THEN Fault(m, "nullptr")
            ELSE DCheck(m, m.control_socket = "CS_CLOSED")
      err == SocketConnectFails(m1, "control_socket", e)
      m2 == SocketConnect(m1, "control_socket", e)
  IN IF err THEN [Close(m2) EXCEPT !.ret = FALSE] ELSE [m2 EXCEPT !.ret = TRUE]

DoConnect(m, e) ==
  LET m1 == [m EXCEPT !.control_socket = "CS_CLOSED", !.hanging_get = "CS_CLOSED",
                      !.net = [s \in Sockets |-> <<>>], !.wire = [s \in Sockets |-> NoData],
                      !.onconnect_data = SignInRequest(m.client_name)]
      m2 == ConnectControlSocket(m1, e)
  IN IF m2.ret THEN [m2 EXCEPT !.state = "SIGNING_IN"]
     ELSE Fire(m2, Ev("OnServerConnectionFailure", 0, <<>>, ""))

\* Connect past its tests: store the endpoint, then resolve or connect.
ConnectAccepted(m, server, name, e) ==
  IF server = "example.org"
    THEN [DCheck(m, m.resolver = "null") EXCEPT
            !.server_address = server, !.client_name = name,
            !.state = "RESOLVING", !.resolver = "started"]
    ELSE DoConnect([m EXCEPT !.server_address = server, !.client_name = name], e)

\* Connect without the test of the state.
ConnectInAnyState(m, server, name, e) ==
  IF server = "" \/ name = ""
    THEN Fire(DCheck(DCheck(m, server # ""), name # ""),
              Ev("OnServerConnectionFailure", 0, <<>>, ""))
    ELSE ConnectAccepted(m, server, name, e)

Connect(m, server, name, e) ==
  IF m.state # "NOT_CONNECTED" \/ server = "" \/ name = ""
    THEN Fire(DCheck(DCheck(m, server # ""), name # ""),
              Ev("OnServerConnectionFailure", 0, <<>>, ""))
    ELSE ConnectAccepted(m, server, name, e)

OnResolveResult(m, result, e) ==
  IF result # "ok"
    THEN [Fire(m, Ev("OnServerConnectionFailure", 0, <<>>, "")) EXCEPT
            !.resolver = "null", !.state = "NOT_CONNECTED"]
    ELSE DoConnect([m EXCEPT !.server_address = "10.0.0.1", !.resolver = "done"], e)

SendToPeer(m, peer_id, message, e) ==
  IF m.state # "CONNECTED" THEN [m EXCEPT !.ret = FALSE]
  ELSE LET m1 == DCheck(m, is_connected(m))
           m2 == IF m1.control_socket = "null" THEN Fault(m1, "nullptr")
                 ELSE DCheck(m1, m1.control_socket = "CS_CLOSED")
       IN IF ~is_connected(m2) \/ peer_id = 0 - 1 THEN [m2 EXCEPT !.ret = FALSE]
          ELSE ConnectControlSocket(
                 [m2 EXCEPT !.onconnect_data = MessageRequest(m2.my_id, peer_id, message)], e)

SendHangUp(m, peer_id, e) == SendToPeer(m, peer_id, kByeMessage, e)

\* SignOut past its first test: close the wait, then sign out or defer.
SignOutNow(m, e) ==
  IF m.hanging_get = "null" THEN Fault(m, "nullptr")
  ELSE LET m1 == IF m.hanging_get # "CS_CLOSED" THEN SocketClose(m, "hanging_get") ELSE m
       IN IF m1.control_socket = "null" THEN Fault(m1, "nullptr")
          ELSE IF m1.control_socket = "CS_CLOSED"
            THEN LET m2 == [m1 EXCEPT !.state = "SIGNING_OUT"]
                 IN IF m2.my_id # 0 - 1
                      THEN ConnectControlSocket(
                             [m2 EXCEPT !.onconnect_data = SignOutRequest(m2.my_id)], e)
                      ELSE [m2 EXCEPT !.ret = TRUE]
            ELSE [m1 EXCEPT !.state = "SIGNING_OUT_WAITING", !.ret = TRUE]

\* SignOut without the test for a sign-out already under way.
SignOutUnguarded(m, e) ==
  IF m.state = "NOT_CONNECTED" THEN [m EXCEPT !.ret = TRUE] ELSE SignOutNow(m, e)

SignOut(m, e) ==
  IF m.state = "NOT_CONNECTED" \/ m.state = "SIGNING_OUT" THEN [m EXCEPT !.ret = TRUE]
  ELSE SignOutNow(m, e)

OnConnect(m) ==
  LET m1 == DCheck(m, m.onconnect_data # NoData)
      m2 == IF m1.onconnect_data # NoData
              THEN SocketSend(m1, "control_socket", m1.onconnect_data) ELSE m1
  IN [m2 EXCEPT !.onconnect_data = NoData]

OnHangingGetConnect(m) == SocketSend(m, "hanging_get", WaitRequest(m.my_id))

\* OnMessageFromPeer that forwards the message tagged with the self id.
OnMessageFromSelf(m, peer_id, message) ==
  IF Len(message) = Len(kByeMessage) /\ message = kByeMessage
    THEN Fire(m, Ev("OnPeerDisconnected", peer_id, <<>>, ""))
    ELSE Fire(m, Ev("OnMessageFromPeer", m.my_id, message, ""))

OnMessageFromPeer(m, peer_id, message) ==
  IF Len(message) = Len(kByeMessage) /\ message = kByeMessage
    THEN Fire(m, Ev("OnPeerDisconnected", peer_id, <<>>, ""))
    ELSE Fire(m, Ev("OnMessageFromPeer", peer_id, message, ""))

\* OnClose without the delayed task for a refused command socket.
OnCloseNoRetry(m, s, err, e) ==
  LET m1 == SocketClose(m, s)
  IN IF err # "ECONNREFUSED"
       THEN IF s = "hanging_get"
              THEN IF m1.state = "CONNECTED"
                     THEN SocketConnect(SocketClose(m1, "hanging_get"), "hanging_get", e)
                     ELSE m1
              ELSE Fire(m1, Ev("OnMessageSent", 0, <<>>, err))
       ELSE IF s = "control_socket"
              THEN m1
              ELSE Fire(Close(m1), Ev("OnDisconnected", 0, <<>>, ""))

\* OnClose that retries a refused connect of either socket.
OnCloseRetriesNotify(m, s, err, e) ==
  LET m1 == SocketClose(m, s)
  IN IF err # "ECONNREFUSED"
       THEN IF s = "hanging_get"
              THEN IF m1.state = "CONNECTED"
                     THEN SocketConnect(SocketClose(m1, "hanging_get"), "hanging_get", e)
                     ELSE m1
              ELSE Fire(m1, Ev("OnMessageSent", 0, <<>>, err))
       ELSE [m1 EXCEPT !.timers = @ + 1]

OnClose(m, s, err, e) ==
  LET m1 == SocketClose(m, s)
  IN IF err # "ECONNREFUSED"
       THEN IF s = "hanging_get"
              THEN IF m1.state = "CONNECTED"
                     THEN SocketConnect(SocketClose(m1, "hanging_get"), "hanging_get", e)
                     ELSE m1
              ELSE Fire(m1, Ev("OnMessageSent", 0, <<>>, err))
       ELSE IF s = "control_socket"
              THEN [m1 EXCEPT !.timers = @ + 1]
              ELSE Fire(Close(m1), Ev("OnDisconnected", 0, <<>>, ""))

\* Recv that replaces what the buffer holds (assign for append).
RecvOverwrites(m, buf, bytes) == [m EXCEPT ![buf] = bytes]

\* ReadIntoBuffer(socket, data, &content_length): Recv appends bytes to the
\* buffer; f is the framing decision on what the buffer then holds.
Recv(m, buf, bytes) == [m EXCEPT ![buf] = @ \o bytes]

\* ReadIntoBuffer that does not look at the Connection header.
FramedKeepsOpen(m, s, f, e) ==
  [m EXCEPT !.complete = f.ret, !.content_length = f.content_length]

Framed(m, s, f, e) ==
  IF f.ret /\ f.close
    THEN OnClose(SocketClose([m EXCEPT !.complete = TRUE,
                                       !.content_length = f.content_length], s),
                 s, "0", e)
    ELSE [m EXCEPT !.complete = f.ret, !.content_length = f.content_length]

ReadIntoBuffer(m, s, buf, bytes, e) ==
  Framed(Recv(m, buf, bytes), s, Framer(m[buf] \o bytes), e)

ParseServerResponse(m, response, content_length) ==
  IF GetResponseStatus(response) # 200
    THEN [Fire(Close(m), Ev("OnDisconnected", 0, <<>>, "")) EXCEPT !.ok = FALSE]
    ELSE LET eoh == Find(response, kCRLFCRLF, 0)
             pragma == GetHeaderValueNum(response, eoh, kPragma)
         IN IF eoh = NPOS THEN [DCheck(m, FALSE) EXCEPT !.ok = FALSE]
            ELSE [m EXCEPT !.ok = TRUE, !.eoh = eoh,
                           !.peer_id = IF pragma.ok THEN pragma.value ELSE 0 - 1]

PeersPut(peers_, id, name) == {p \in peers_ : p[1] # id} \cup {<<id, name>>}
PeersErase(peers_, id) == {p \in peers_ : p[1] # id}

\* The lines of the sign-in body: from pos, each up to the next '\n'.
RECURSIVE BodyLines(_, _)
BodyLines(data, pos) ==
  IF pos < Len(data)
    THEN LET eol == Find(data, <<LF>>, pos)
         IN IF eol = NPOS THEN <<>>
            ELSE <<Substr(data, pos, eol - pos)>> \o BodyLines(data, eol + 1)
    ELSE <<>>

\* One turn of OnRead's loop over the listing: the entry on one line.
AddEntry(m, line) ==
  LET entry == ParseEntry(line)
  IN IF entry.ok /\ entry.id # m.my_id
       THEN Fire([DCheck(m, line # <<>>) EXCEPT !.peers = PeersPut(@, entry.id, entry.name)],
                 Ev("OnPeerConnected", entry.id, entry.name, ""))
       ELSE DCheck(m, line # <<>>)

RECURSIVE AddListedPeers(_, _, _)
AddListedPeers(m, lines, i) ==
  IF i > Len(lines) THEN m ELSE AddListedPeers(AddEntry(m, lines[i]), lines, i + 1)

\* OnRead, first response: store the assigned id and the listed peers.
OnFirstResponse(m) ==
  LET m1 == DCheck(m, m.state = "SIGNING_IN")
      m2 == [m1 EXCEPT !.my_id = m.peer_id]
      m3 == DCheck(m2, m2.my_id # 0 - 1)
      m4 == IF m3.content_length # 0
              THEN AddListedPeers(m3, BodyLines(m3.control_data, m3.eoh + 4), 1)
              ELSE m3
  IN Fire(DCheck(m4, is_connected(m4)), Ev("OnSignedIn", 0, <<>>, ""))

\* OnRead without the SIGNING_OUT branch of lines 422-424.
OnReadParsedKeepsSession(m, e) ==
  IF ~m.ok THEN m
  ELSE IF m.my_id = 0 - 1 THEN OnFirstResponse(m)
  ELSE IF m.state = "SIGNING_OUT_WAITING" THEN SignOut(m, e)
  ELSE m

\* OnRead, the branches taken on a response that parsed.
OnReadParsed(m, e) ==
  IF ~m.ok THEN m
  ELSE IF m.my_id = 0 - 1 THEN OnFirstResponse(m)
  ELSE IF m.state = "SIGNING_OUT"
    THEN Fire(Close(m), Ev("OnDisconnected", 0, <<>>, ""))
  ELSE IF m.state = "SIGNING_OUT_WAITING" THEN SignOut(m, e)
  ELSE m

\* OnRead that starts the long-poll connect without entering CONNECTED.
OnReadDoneStaysSigningIn(m, e) ==
  IF m.state = "SIGNING_IN"
    THEN SocketConnect(DCheck(m, m.hanging_get = "CS_CLOSED"), "hanging_get", e)
    ELSE m

\* OnRead, after control_data_.clear(): the first response starts the wait.
OnReadDone(m, e) ==
  IF m.state = "SIGNING_IN"
    THEN SocketConnect(
           [DCheck(m, m.hanging_get = "CS_CLOSED") EXCEPT !.state = "CONNECTED"],
           "hanging_get", e)
    ELSE m

ClearControlData(m) == [m EXCEPT !.control_data = <<>>]

\* OnRead, once ReadIntoBuffer has returned.
OnReadBuffered(m, e) ==
  IF ~m.complete THEN m
  ELSE OnReadDone(
         ClearControlData(
           OnReadParsed(ParseServerResponse(m, m.control_data, m.content_length), e)),
         e)

OnRead(m, bytes, e) ==
  OnReadBuffered(ReadIntoBuffer(m, "control_socket", "control_data", bytes, e), e)

\* The directory notification handled without looking at "connected".
OnDirectoryDeltaAlwaysAdds(m, body) ==
  LET entry == ParseEntry(body)
      m1 == DCheck(m, body # <<>>)
  IN IF ~entry.ok THEN m1
     ELSE Fire([m1 EXCEPT !.peers = PeersPut(@, entry.id, entry.name)],
               Ev("OnPeerConnected", entry.id, entry.name, ""))

\* OnHangingGetRead, a notification addressed to this client.
OnDirectoryDelta(m, body) ==
  LET entry == ParseEntry(body)
      m1 == DCheck(m, body # <<>>)
  IN IF ~entry.ok THEN m1
     ELSE IF entry.connected
       THEN Fire([m1 EXCEPT !.peers = PeersPut(@, entry.id, entry.name)],
                 Ev("OnPeerConnected", entry.id, entry.name, ""))
       ELSE Fire([m1 EXCEPT !.peers = PeersErase(@, entry.id)],
                 Ev("OnPeerDisconnected", entry.id, <<>>, ""))

\* OnHangingGetRead, the branches taken on a response that parsed.
OnHangingGetParsed(m, body) ==
  IF ~m.ok THEN m
  ELSE IF m.my_id = m.peer_id THEN OnDirectoryDelta(m, body)
  ELSE OnMessageFromPeer(m, m.peer_id, body)

\* OnHangingGetRead without notification_data_.clear() of line 481.
KeepNotificationData(m) == m

ClearNotificationData(m) == [m EXCEPT !.notification_data = <<>>]

\* OnHangingGetRead, the block run when ReadIntoBuffer returned true.
OnHangingGetResponse(m) ==
  ClearNotificationData(OnHangingGetParsed(m, SubstrFrom(m.notification_data, m.eoh + 4)))

\* OnHangingGetRead, its last statement: reconnect a closed long-poll socket.
OnHangingGetDone(m, e) ==
  IF m.hanging_get = "CS_CLOSED" /\ m.state = "CONNECTED"
    THEN SocketConnect(m, "hanging_get", e)
    ELSE m

\* OnHangingGetRead, once ReadIntoBuffer has returned.
OnHangingGetBuffered(m, e) ==
  IF ~m.complete THEN OnHangingGetDone(m, e)
  ELSE OnHangingGetDone(
         OnHangingGetResponse(
           ParseServerResponse(m, m.notification_data, m.content_length)), e)

OnHangingGetRead(m, bytes, e) ==
  OnHangingGetBuffered(
    ReadIntoBuffer(m, "hanging_get", "notification_data", bytes, e), e)

\* -------------------------------------------------------------- actions

\* The record of an operation: its name and inputs (data is what a read
\* handler has in its buffer once Recv is done), and whether it is a SignOut
\* that follows a SignOut at once.
OpRead(op, sock, data) ==
  [op |-> op, sock |-> sock, err |-> "", peer_id |-> 0, data |-> data, rep |-> FALSE,
   valid |-> TRUE]
Op(op, sock, err, peer_id) ==
  [op |-> op, sock |-> sock, err |-> err, peer_id |-> peer_id, data |-> <<>>,
   rep |-> op = "SignOut" /\ last.op = "SignOut", valid |-> TRUE]
\* A call of Connect; valid says that neither argument is empty.
OpConnect(server, name) ==
  [Op("Connect", "", "", 0) EXCEPT !.valid = server # "" /\ name # ""]

NoOp ==
  [op |-> "", sock |-> "", err |-> "", peer_id |-> 0, data |-> <<>>, rep |-> FALSE,
   valid |-> TRUE]

\* The process has aborted: nothing of the client is left.
Crash(kind, l) ==
  /\ UNCHANGED segmented
  /\ crashed' = kind
  /\ last' = l
  /\ state' = "NOT_CONNECTED"
  /\ my_id' = 0 - 1
  /\ peers' = {}
  /\ onconnect_data' = NoData
  /\ control_data' = <<>>
  /\ notification_data' = <<>>
  /\ control_socket' = "null"
  /\ hanging_get' = "null"
  /\ resolver' = "null"
  /\ server_address' = ""
  /\ client_name' = ""
  /\ timers' = 0
  /\ net' = [s \in Sockets |-> <<>>]
  /\ wire' = [s \in Sockets |-> NoData]
  /\ events' = <<>>
  /\ ret' = FALSE

\* The operation ran to its end as m and returned r.
Return(m, l, r) ==
  /\ UNCHANGED segmented
  /\ crashed' = "no"
  /\ last' = l
  /\ state' = m.state
  /\ my_id' = m.my_id
  /\ peers' = m.peers
  /\ onconnect_data' = m.onconnect_data
  /\ control_data' = m.control_data
  /\ notification_data' = m.notification_data
  /\ control_socket' = m.control_socket
  /\ hanging_get' = m.hanging_get
  /\ resolver' = m.resolver
  /\ server_address' = m.server_address
  /\ client_name' = m.client_name
  /\ timers' = m.timers
  /\ net' = m.net
  /\ wire' = m.wire
  /\ events' = m.events
  /\ ret' = r

\* The outcome of an operation computed as m: a use of a null socket aborts;
\* a failed RTC_DCHECK aborts or is compiled out, as the build has it.
Commit(m, l, r) ==
  IF m.crashed # "no" THEN Crash(m.crashed, l)
  ELSE \/ Return(m, l, r)
       \/ m.dcheck /\ Crash("dcheck", l)

CallConnect ==
  /\ crashed = "no"
  /\ \E server \in Servers, name \in ClientNames, e \in BOOLEAN :
       Commit(Connect(Self, server, name, e), OpConnect(server, name), TRUE)

CallSendToPeer ==
  /\ crashed = "no"
  /\ \E peer_id \in PeerIds, message \in Messages, e \in BOOLEAN :
       LET m == SendToPeer(Self, peer_id, message, e)
       IN Commit(m, Op("SendToPeer", "", "", peer_id), m.ret)

CallSendHangUp ==
  /\ crashed = "no"
  /\ \E peer_id \in PeerIds, e \in BOOLEAN :
       LET m == SendHangUp(Self, peer_id, e)
       IN Commit(m, Op("SendHangUp", "", "", peer_id), m.ret)

CallSignOut ==
  /\ crashed = "no"
  /\ \E e \in BOOLEAN :
       LET m == SignOut(Self, e)
       IN Commit(m, Op("SignOut", "", "", 0), m.ret)

CallClose ==
  /\ crashed = "no"
  /\ Commit(Close(Self), Op("Close", "", "", 0), TRUE)

\* The resolver's callback.
ResolveResult ==
  /\ crashed = "no"
  /\ resolver = "started"
  /\ \E result \in {"ok", "error", "no address"}, e \in BOOLEAN :
       Commit(OnResolveResult(Self, result, e), Op("OnResolveResult", "", result, 0), TRUE)

\* SignalConnectEvent of the command socket.
ControlConnectEvent ==
  /\ crashed = "no"
  /\ control_socket = "CS_CONNECTING"
  /\ Commit(OnConnect([Self EXCEPT !.control_socket = "CS_CONNECTED"]),
            Op("OnConnect", "control_socket", "", 0), TRUE)

\* SignalConnectEvent of the long-poll socket.
HangingGetConnectEvent ==
  /\ crashed = "no"
  /\ hanging_get = "CS_CONNECTING"
  /\ Commit(OnHangingGetConnect([Self EXCEPT !.hanging_get = "CS_CONNECTED"]),
            Op("OnHangingGetConnect", "hanging_get", "", 0), TRUE)

\* What a read event on socket s may deliver: the rest of a response whose
\* first segment was read, or the server's answer to the request written,
\* whole or, when the server segments, cut after its first byte.
Cuts(r) == IF segmented THEN {1, Len(r)} ELSE {Len(r)}
Deliveries(s, buffer) ==
  IF net[s] # <<>> THEN {[bytes |-> net[s], rest |-> <<>>]}
  ELSE IF wire[s] = NoData \/ Len(buffer) > MaxStale THEN {}
  ELSE UNION {{[bytes |-> SubSeq(r, 1, k), rest |-> SubSeq(r, k + 1, Len(r))] : k \in Cuts(r)} :
                r \in Responses(s)}

\* SignalReadEvent of the command socket: Recv yields all that has arrived.
ControlReadEvent ==
  /\ crashed = "no"
  /\ control_socket = "CS_CONNECTED"
  /\ \E d \in Deliveries("control_socket", control_data), e \in BOOLEAN :
       Commit(OnRead([Self EXCEPT !.net["control_socket"] = d.rest,
                                  !.wire["control_socket"] = NoData], d.bytes, e),
              OpRead("OnRead", "control_socket", control_data \o d.bytes), TRUE)

\* SignalReadEvent of the long-poll socket.
HangingGetReadEvent ==
  /\ crashed = "no"
  /\ hanging_get = "CS_CONNECTED"
  /\ \E d \in Deliveries("hanging_get", notification_data), e \in BOOLEAN :
       Commit(OnHangingGetRead([Self EXCEPT !.net["hanging_get"] = d.rest,
                                            !.wire["hanging_get"] = NoData], d.bytes, e),
              OpRead("OnHangingGetRead", "hanging_get", notification_data \o d.bytes), TRUE)

\* SignalCloseEvent: a connect that fails, or a connection that ends.
CloseErrors(sock_state) ==
  IF sock_state = "CS_CONNECTING" THEN {"ECONNREFUSED", "ETIMEDOUT"}
  ELSE IF sock_state = "CS_CONNECTED" THEN {"0", "ECONNRESET"}
  ELSE {}

CloseEvent ==
  /\ crashed = "no"
  /\ \E s \in Sockets, e \in BOOLEAN :
       \E err \in CloseErrors(Self[s]) :
         /\ (err = "ECONNREFUSED" /\ s = "control_socket") => timers < MaxTimers
         /\ Commit(OnClose(Self, s, err, e), Op("OnClose", s, err, 0), TRUE)

\* The delayed task posted by OnClose runs.
RetryTimer ==
  /\ crashed = "no"
  /\ timers > 0
  /\ \E e \in BOOLEAN :
       Commit(DoConnect([Self EXCEPT !.timers = @ - 1], e), Op("DoConnect", "", "", 0), TRUE)

\* The client as constructed, nothing on the network.
InitClient ==
  /\ state = "NOT_CONNECTED"
  /\ my_id = 0 - 1
  /\ peers = {}
  /\ onconnect_data = NoData
  /\ control_data = <<>>
  /\ notification_data = <<>>
  /\ control_socket = "null"
  /\ hanging_get = "null"
  /\ resolver = "null"
  /\ server_address = ""
  /\ client_name = ""
  /\ timers = 0
  /\ net = [s \in Sockets |-> <<>>]
  /\ wire = [s \in Sockets |-> NoData]
  /\ crashed = "no"
  /\ events = <<>>
  /\ ret = TRUE
  /\ last = NoOp

\* The server answers each request in one piece.
Init == InitClient /\ segmented = FALSE
\* The server may deliver the first byte of an answer apart from the rest.
InitSegmented == InitClient /\ segmented = TRUE

Next ==
  \/ CallConnect
  \/ CallSendToPeer
  \/ CallSendHangUp
  \/ CallSignOut
  \/ CallClose
  \/ ResolveResult
  \/ ControlConnectEvent
  \/ HangingGetConnectEvent
  \/ ControlReadEvent
  \/ HangingGetReadEvent
  \/ CloseEvent
  \/ RetryTimer

Spec == Init /\ [][Next]_vars
\* A session that is connected, read from and closed, with no relay and no
\* sign-out, against the server that segments.
NextSegmented ==
  \/ CallConnect
  \/ CallClose
  \/ ResolveResult
  \/ ControlConnectEvent
  \/ HangingGetConnectEvent
  \/ ControlReadEvent
  \/ HangingGetReadEvent
  \/ CloseEvent
  \/ RetryTimer

SpecSegmented == InitSegmented /\ [][NextSegmented]_vars

\* SignalReadEvent of the command socket when the answer to the request
\* written arrives cut at any byte: Recv yields the first k bytes, the rest is
\* still to arrive.
ControlReadSplit ==
  /\ crashed = "no"
  /\ control_socket = "CS_CONNECTED"
  /\ net["control_socket"] = <<>> /\ wire["control_socket"] # NoData
  /\ control_data = <<>>
  /\ \E r \in ControlResponses, e \in BOOLEAN :
       \E k \in 1..(Len(r) - 1) :
         Commit(OnRead([Self EXCEPT !.net["control_socket"] = SubSeq(r, k + 1, Len(r)),
                                    !.wire["control_socket"] = NoData],
                       SubSeq(r, 1, k), e),
                OpRead("OnRead", "control_socket", SubSeq(r, 1, k)), TRUE)

\* The same on the long-poll socket.
HangingGetReadSplit ==
  /\ crashed = "no"
  /\ hanging_get = "CS_CONNECTED"
  /\ net["hanging_get"] = <<>> /\ wire["hanging_get"] # NoData
  /\ notification_data = <<>>
  /\ \E r \in NotifyResponses, e \in BOOLEAN :
       \E k \in 1..(Len(r) - 1) :
         Commit(OnHangingGetRead([Self EXCEPT !.net["hanging_get"] = SubSeq(r, k + 1, Len(r)),
                                              !.wire["hanging_get"] = NoData],
                                 SubSeq(r, 1, k), e),
                OpRead("OnHangingGetRead", "hanging_get", SubSeq(r, 1, k)), TRUE)

\* A session that signs in and waits for notifications, each response
\* arriving whole or in two reads cut at any byte.
NextSplit ==
  \/ CallConnect
  \/ ResolveResult
  \/ ControlConnectEvent
  \/ HangingGetConnectEvent
  \/ ControlReadEvent
  \/ HangingGetReadEvent
  \/ ControlReadSplit
  \/ HangingGetReadSplit

SpecSplit == Init /\ [][NextSplit]_vars

\* SignalReadEvent of the command socket when the server answers the request
\* written with a header that has no Content-Length, and sends on: Recv
\* yields the first k bytes, the rest is still to arrive.
ControlReadUnframed ==
  /\ crashed = "no"
  /\ control_socket = "CS_CONNECTED"
  /\ net["control_socket"] = <<>> /\ wire["control_socket"] # NoData
  /\ control_data = <<>>
  /\ \E h \in UnframedHeaders, f \in Follows(MaxFollow), e \in BOOLEAN :
       \E k \in UnframedCuts(h, h \o f) :
         Commit(OnRead([Self EXCEPT !.net["control_socket"] = SubstrFrom(h \o f, k),
                                    !.wire["control_socket"] = NoData],
                       Substr(h \o f, 0, k), e),
                OpRead("OnRead", "control_socket", Substr(h \o f, 0, k)), TRUE)

\* The same on the long-poll socket.
HangingGetReadUnframed ==
  /\ crashed = "no"
  /\ hanging_get = "CS_CONNECTED"
  /\ net["hanging_get"] = <<>> /\ wire["hanging_get"] # NoData
  /\ notification_data = <<>>
  /\ \E h \in UnframedHeaders, f \in Follows(MaxFollow), e \in BOOLEAN :
       \E k \in UnframedCuts(h, h \o f) :
         Commit(OnHangingGetRead([Self EXCEPT !.net["hanging_get"] = SubstrFrom(h \o f, k),
                                              !.wire["hanging_get"] = NoData],
                                 Substr(h \o f, 0, k), e),
                OpRead("OnHangingGetRead", "hanging_get", Substr(h \o f, 0, k)), TRUE)

\* A session that signs in and waits for notifications against a server that
\* may leave Content-Length out of a response.
NextUnframed ==
  \/ CallConnect
  \/ ResolveResult
  \/ ControlConnectEvent
  \/ HangingGetConnectEvent
  \/ ControlReadEvent
  \/ HangingGetReadEvent
  \/ ControlReadUnframed
  \/ HangingGetReadUnframed

SpecUnframed == Init /\ [][NextUnframed]_vars

\* ------------------------------------------------------------ properties

\* What a read handler found in its buffer: a complete response, its status,
\* the id in its Pragma header, its body.
Completed(op) == Framer(op.data).ret
Status(op) == GetResponseStatus(op.data)
PragmaOf(op) == GetHeaderValueNum(op.data, Find(op.data, kCRLFCRLF, 0), kPragma)
BodyOf(op) == SubstrFrom(op.data, Find(op.data, kCRLFCRLF, 0) + 4)
\* How many times the operation fired the observer's event name.
Count(evs, name) == Cardinality({i \in 1..Len(evs) : evs[i].e = name})
Tracked(dir, id) == \E p \in dir : p[1] = id

\* A relay request accepted earlier has not had its response yet.
SendInFlight ==
  /\ state = "CONNECTED"
  /\ \/ control_socket = "CS_CONNECTING" /\ onconnect_data.req = "POST /message"
     \/ control_socket = "CS_CONNECTED" /\ wire["control_socket"].req = "POST /message"

\* C1: a SendToPeer called while an earlier relay request is still in flight
\* (and not aborted by a failed RTC_DCHECK) returns failure and leaves that
\* request alone: the pending outbound bytes, the command socket and what it
\* has written are as before.
C1_SecondSendRejected ==
  [][(SendInFlight /\ last'.op = "SendToPeer" /\ crashed' = "no")
       => /\ ret' = FALSE
          /\ onconnect_data' = onconnect_data
          /\ control_socket' = control_socket
          /\ wire' = wire]_vars

\* C2: a retry timer that fires right after Close or SignOut was called (so
\* it was armed before the call) starts no connect, creates no sockets and
\* changes no state.
C2_StaleRetryInert ==
  [][(last.op \in {"Close", "SignOut"} /\ last'.op = "DoConnect")
       => /\ state' = state
          /\ control_socket' = control_socket
          /\ hanging_get' = hanging_get
          /\ onconnect_data' = onconnect_data]_vars

\* C3: a notify response from a tracked peer with the body "BYE" removes
\* that peer from the directory, fires peer-disconnected once and
\* message-from-peer not at all.
C3_ByeRemovesPeer ==
  [][(/\ last'.op = "OnHangingGetRead" /\ crashed' = "no"
      /\ Completed(last') /\ Status(last') = 200
      /\ my_id # 0 - 1
      /\ PragmaOf(last').ok /\ PragmaOf(last').value # my_id
      /\ Tracked(peers, PragmaOf(last').value)
      /\ BodyOf(last') = kByeMessage)
       => /\ ~Tracked(peers', PragmaOf(last').value)
          /\ Count(events', "OnPeerDisconnected") = 1
          /\ Count(events', "OnMessageFromPeer") = 0]_vars

\* C4: when SignOut was deferred (SigningOutPending) and the response of the
\* exchange in flight is received complete, with status 200 and the
\* connection closed by the server, the handler signs out: the state becomes
\* SigningOut with the sign-out request pending on a connecting command
\* socket (or the session is torn down when that connect fails at once).
C4_DeferredSignOutResumes ==
  [][(/\ state = "SIGNING_OUT_WAITING"
      /\ last'.op = "OnRead" /\ crashed' = "no"
      /\ Completed(last') /\ Status(last') = 200 /\ Framer(last'.data).close)
       => \/ /\ state' = "SIGNING_OUT"
             /\ control_socket' = "CS_CONNECTING"
             /\ onconnect_data' = SignOutRequest(my_id')
          \/ state' = "NOT_CONNECTED"]_vars

\* C5: in state Connected, once a complete notify response has been consumed
\* a new wait request is out: written on the same socket when the server
\* left it open, or due on the reconnecting socket when the server closed it.
C5_WaitReissued ==
  [][(/\ state = "CONNECTED" /\ state' = "CONNECTED"
      /\ last'.op = "OnHangingGetRead" /\ crashed' = "no"
      /\ Completed(last') /\ Status(last') = 200)
       => \/ /\ hanging_get' = "CS_CONNECTED"
             /\ wire'["hanging_get"] = WaitRequest(my_id')
          \/ hanging_get' = "CS_CONNECTING"]_vars

\* The directory a sign-in body lists for the client whose id is self: the
\* id and name of every line that parses, but for the client's own.
Listed(op, self) ==
  LET lines == BodyLines(op.data, Find(op.data, kCRLFCRLF, 0) + 4)
  IN {<<ParseEntry(lines[i]).id, ParseEntry(lines[i]).name>> :
        i \in {j \in 1..Len(lines) :
                 ParseEntry(lines[j]).ok /\ ParseEntry(lines[j]).id # self}}

\* C6: a complete 200 sign-in response that carries a Pragma header, read in
\* SigningIn with the self id unset, leaves the self id equal to the Pragma
\* value and the directory equal to the body's entries of other clients.
C6_SignInSetsIdAndDirectory ==
  [][(/\ state = "SIGNING_IN" /\ my_id = 0 - 1
      /\ last'.op = "OnRead" /\ crashed' = "no"
      /\ Completed(last') /\ Status(last') = 200 /\ PragmaOf(last').ok)
       => /\ my_id' = PragmaOf(last').value
          /\ peers' = Listed(last', my_id')]_vars

\* C7: a complete response with a status other than 200, on either socket
\* and in any state, leaves both sockets closed, the state Disconnected, the
\* disconnected event fired once, no retry timer armed and no socket
\* connecting.
C7_NonOkTearsDown ==
  [][(/\ last'.op \in {"OnRead", "OnHangingGetRead"} /\ crashed' = "no"
      /\ Completed(last') /\ Status(last') # 200)
       => /\ control_socket' = "CS_CLOSED"
          /\ hanging_get' = "CS_CLOSED"
          /\ state' = "NOT_CONNECTED"
          /\ Count(events', "OnDisconnected") = 1
          /\ timers' = 0]_vars

\* The command socket's connect was refused.
Refused(op) == op.op = "OnClose" /\ op.sock = "control_socket" /\ op.err = "ECONNREFUSED"

\* C8: a refusal of the command socket's connect in SigningIn with the self
\* id unset arms exactly one retry, and a retry that runs takes exactly one
\* away and arms none, so that a refusal of its connect arms one again.
C8_OneRetryPerRefusal ==
  [][/\ (Refused(last') /\ state = "SIGNING_IN" /\ my_id = 0 - 1 /\ crashed' = "no")
          => timers' = timers + 1
     /\ (last'.op = "DoConnect" /\ crashed' = "no") => timers' = timers - 1]_vars

\* C8, its case: a connect of the command socket was refused in SigningIn
\* with the self id unset, and the one retry it armed is pending.
C8_Witness ==
  /\ Refused(last) /\ state = "SIGNING_IN" /\ my_id = 0 - 1
  /\ timers = 1 /\ control_socket = "CS_CLOSED"

\* C9: a SignOut that follows a SignOut at once returns success and does
\* nothing: no request is queued or written, no connect is started, no
\* observer event is fired.
C9_SecondSignOutIdle ==
  [][(last.op = "SignOut" /\ last'.op = "SignOut")
       => /\ crashed' = "no"
          /\ ret' = TRUE
          /\ UNCHANGED <<prog, net, wire>>
          /\ events' = <<>>]_vars

\* C9, its case: the second of two SignOut calls, the first of which queued
\* the sign-out request.
C9_Witness ==
  /\ last.op = "SignOut" /\ last.rep
  /\ state = "SIGNING_OUT" /\ control_socket = "CS_CONNECTING"
  /\ onconnect_data = SignOutRequest(my_id) /\ my_id # 0 - 1

\* C10: Close and SignOut, in whatever state they are called, complete
\* without using a socket that was never created.
C10_CloseAndSignOutSafe ==
  last.op \in {"Close", "SignOut"} => crashed # "nullptr"

\* C11: in every state the directory has no entry under the self id.
C11_SelfNotInDirectory == ~Tracked(peers, my_id)

\* C12: a SendToPeer called in a state other than Connected, or with the
\* peer id -1, returns failure and has no effect: no member and no socket
\* changes, nothing is written or connected, no observer event is fired.
C12_RejectedSendHasNoEffect ==
  [][(last'.op = "SendToPeer" /\ (state # "CONNECTED" \/ last'.peer_id = 0 - 1))
       => /\ crashed' = "no"
          /\ ret' = FALSE
          /\ UNCHANGED <<prog, net, wire>>
          /\ events' = <<>>]_vars

C14_CloseResetsSession ==
  [][/\ (last'.op = "Close" /\ control_socket # "null" /\ hanging_get # "null")
          => /\ crashed' = "no"
             /\ state' = "NOT_CONNECTED"
             /\ control_socket' = "CS_CLOSED" /\ hanging_get' = "CS_CLOSED"
             /\ peers' = {} /\ my_id' = 0 - 1
             /\ onconnect_data' = NoData
             /\ resolver' = "null"
             /\ events' = <<>>
     /\ (last.op = "Close" /\ crashed = "no") => last'.op # "OnResolveResult"]_vars

\* C14, its case: Close has run on existing sockets.
C14_Witness ==
  /\ last.op = "Close" /\ crashed = "no"
  /\ state = "NOT_CONNECTED" /\ control_socket = "CS_CLOSED" /\ hanging_get = "CS_CLOSED"

\* C15: when a socket closes, or Close is called, the receive buffer of that
\* socket (of both sockets for Close) is empty afterwards, whatever part of
\* a response it held.
C15_PartialDiscarded ==
  [][/\ (last'.op = "Close" /\ crashed' = "no")
          => control_data' = <<>> /\ notification_data' = <<>>
     /\ (last'.op = "OnClose" /\ last'.sock = "control_socket" /\ crashed' = "no")
          => control_data' = <<>>
     /\ (last'.op = "OnClose" /\ last'.sock = "hanging_get" /\ crashed' = "no")
          => notification_data' = <<>>]_vars

\* C16: a complete response read on the command socket while the state is
\* SIGNING_OUT, whatever its status and body, leaves the session torn down
\* (no peers, no self id, both sockets closed, NOT_CONNECTED) and
\* OnDisconnected is fired once.
C16_SignOutResponseTearsDown ==
  [][(last'.op = "OnRead" /\ Completed(last') /\ state = "SIGNING_OUT")
       => /\ crashed' = "no"
          /\ state' = "NOT_CONNECTED"
          /\ peers' = {}
          /\ my_id' = 0 - 1
          /\ control_socket' = "CS_CLOSED"
          /\ hanging_get' = "CS_CLOSED"
          /\ Count(events', "OnDisconnected") = 1]_vars

\* C16: a 200 response was just read on the command socket and OnDisconnected
\* was fired for it, which OnRead does in SIGNING_OUT only; the session is
\* torn down.
C16_Witness ==
  /\ last.op = "OnRead"
  /\ Completed(last)
  /\ crashed = "no"
  /\ state = "NOT_CONNECTED"
  /\ my_id = 0 - 1
  /\ Status(last) = 200
  /\ Count(events, "OnDisconnected") = 1
  /\ control_socket = "CS_CLOSED"

\* C17: a refusal of the command socket's connect while the state is
\* SIGNING_OUT or SIGNING_OUT_WAITING arms no retry.
C17_NoRetryWhileSigningOut ==
  [][(Refused(last') /\ state \in {"SIGNING_OUT", "SIGNING_OUT_WAITING"})
       => crashed' = "no" /\ timers' = timers]_vars

\* C18: the self id is -1 whenever the state is NOT_CONNECTED, RESOLVING or
\* SIGNING_IN, and a self id that is set stays as it is or goes back to -1.
C18_SelfIdStable ==
  [][/\ state' \in {"NOT_CONNECTED", "RESOLVING", "SIGNING_IN"} => my_id' = 0 - 1
     /\ my_id # 0 - 1 => my_id' \in {my_id, 0 - 1}]_vars

\* C19: a wait request is written on the long-poll socket only by
\* OnHangingGetConnect, and only when no earlier wait is unanswered, no byte
\* of an earlier response is still to arrive and the receive buffer holds no
\* complete response; a complete response that was read leaves the buffer
\* empty and no wait unanswered.
C19_OneWaitOutstanding ==
  [][/\ (last'.op = "OnHangingGetConnect" /\ crashed' = "no")
          => /\ wire["hanging_get"] = NoData
             /\ net["hanging_get"] = <<>>
             /\ ~Framer(notification_data).ret
             /\ wire'["hanging_get"] = WaitRequest(my_id)
     /\ (last'.op # "OnHangingGetConnect" /\ wire'["hanging_get"] # NoData)
          => wire'["hanging_get"] = wire["hanging_get"]
     /\ (last'.op = "OnHangingGetRead" /\ Completed(last') /\ crashed' = "no")
          => notification_data' = <<>> /\ wire'["hanging_get"] = NoData]_vars

\* C19, its case: a wait request was just written after a notification that
\* put this client's own entry "c" in the directory was processed and its
\* connection closed.
C19_Witness ==
  /\ last.op = "OnHangingGetConnect"
  /\ crashed = "no"
  /\ <<3, <<"c">>>> \in peers
  /\ wire["hanging_get"] = WaitRequest(my_id)
  /\ notification_data = <<>>

\* C20: an operation other than the caller's Close that takes the session
\* from another state to NOT_CONNECTED fires exactly one observer event of
\* failure, OnServerConnectionFailure or OnDisconnected; stated for the
\* operations that start with the command socket closed, a SendToPeer or
\* SignOut whose connect fails at once among them.
C20_FailureReportedOnce ==
  [][(state # "NOT_CONNECTED" /\ state' = "NOT_CONNECTED"
        /\ control_socket = "CS_CLOSED"
        /\ last'.op # "Close" /\ crashed' = "no")
       => Count(events', "OnServerConnectionFailure")
            + Count(events', "OnDisconnected") = 1]_vars

\* A close event with an error other than a refused connect, delivered while
\* the session is not signing out.
PlainClose(op, st) ==
  /\ op.op = "OnClose"
  /\ op.err # "ECONNREFUSED"
  /\ st \notin {"SIGNING_OUT", "SIGNING_OUT_WAITING"}

\* C21: a close of the command or long-poll socket that is not a refused
\* connect and happens while the session is not signing out fires
\* OnDisconnected, arms no retry and reconnects nothing.
C21_CloseIsSessionFailure ==
  [][PlainClose(last', state)
       => /\ crashed' = "no"
          /\ Count(events', "OnDisconnected") = 1
          /\ timers' = timers
          /\ hanging_get' # "CS_CONNECTING"
          /\ control_socket' # "CS_CONNECTING"]_vars

\* C22: a refused connect of the long-poll socket tears the session down
\* (both sockets closed, no peers, no self id, NOT_CONNECTED), fires
\* OnDisconnected and nothing else, and arms no retry.
C22_NotifyRefusedTearsDown ==
  [][(last'.op = "OnClose" /\ last'.sock = "hanging_get"
        /\ last'.err = "ECONNREFUSED")
       => /\ crashed' = "no"
          /\ state' = "NOT_CONNECTED"
          /\ control_socket' = "CS_CLOSED"
          /\ hanging_get' = "CS_CLOSED"
          /\ peers' = {}
          /\ my_id' = 0 - 1
          /\ events' = <<Ev("OnDisconnected", 0, <<>>, "")>>
          /\ timers' = timers]_vars

\* C22, its case: the connect of the long-poll socket was just refused and
\* the session is torn down with OnDisconnected fired.
C22_Witness ==
  /\ last.op = "OnClose" /\ last.sock = "hanging_get" /\ last.err = "ECONNREFUSED"
  /\ crashed = "no"
  /\ state = "NOT_CONNECTED"
  /\ hanging_get = "CS_CLOSED"
  /\ events = <<Ev("OnDisconnected", 0, <<>>, "")>>

\* The read handler of socket s run once on data, the whole of a response,
\* with nothing in the receive buffer and nothing more to arrive.
OneRead(m, s, data, e) ==
  IF s = "control_socket"
    THEN OnRead([m EXCEPT !.control_data = <<>>, !.net[s] = <<>>, !.wire[s] = NoData],
                data, e)
    ELSE OnHangingGetRead([m EXCEPT !.notification_data = <<>>, !.net[s] = <<>>,
                                    !.wire[s] = NoData],
                          data, e)

\* The step ends as the operation computed as m ends.
SameOutcome(m) ==
  IF crashed' = "no"
    THEN /\ m.crashed = "no"
         /\ state' = m.state /\ my_id' = m.my_id /\ peers' = m.peers
         /\ onconnect_data' = m.onconnect_data
         /\ control_data' = m.control_data
         /\ notification_data' = m.notification_data
         /\ control_socket' = m.control_socket /\ hanging_get' = m.hanging_get
         /\ timers' = m.timers /\ net' = m.net /\ wire' = m.wire
         /\ events' = m.events
    ELSE m.crashed = crashed' \/ (m.dcheck /\ crashed' = "dcheck")

IsRead(op) == op.op \in {"OnRead", "OnHangingGetRead"}
BufferOf(s) == IF s = "control_socket" THEN control_data ELSE notification_data

\* C23: a read that leaves a response incomplete parses nothing, fires no
\* event and keeps every byte in the receive buffer; the read that completes
\* a response begun by an earlier read ends as one read of the whole response
\* would have ended: same state, self id, directory, sockets and events.
C23_SplitReadSameAsWhole ==
  [][/\ (IsRead(last') /\ ~Completed(last'))
          => /\ crashed' = "no"
             /\ events' = <<>>
             /\ UNCHANGED <<state, my_id, peers, onconnect_data, control_socket,
                            hanging_get, timers>>
             /\ last'.data = BufferOf(last'.sock) \o SubSeq(last'.data,
                                 Len(BufferOf(last'.sock)) + 1, Len(last'.data))
             /\ IF last'.sock = "control_socket"
                  THEN control_data' = last'.data
                         /\ notification_data' = notification_data
                  ELSE notification_data' = last'.data
                         /\ control_data' = control_data
     /\ (IsRead(last') /\ Completed(last') /\ BufferOf(last'.sock) # <<>>)
          => \E e \in BOOLEAN :
               \E m \in {OneRead(Self, last'.sock, last'.data, e)} : SameOutcome(m)]_vars

\* C23, its case: the first read delivered several bytes of the sign-in
\* response and left it incomplete; they are in the buffer, nothing was
\* parsed or fired, and the bytes still to arrive complete the response.
C23_Witness ==
  /\ last.op = "OnRead" /\ ~Completed(last)
  /\ crashed = "no"
  /\ Len(control_data) > 1 /\ control_data = last.data
  /\ net["control_socket"] # <<>>
  /\ Framer(control_data \o net["control_socket"]).ret
  /\ state = "SIGNING_IN" /\ my_id = 0 - 1
  /\ events = <<>>

\* The step ran DoConnect: as the retry, after a resolution that succeeded,
\* or from a Connect that was accepted for an address that needs none.
DoConnectRan ==
  \/ last'.op = "DoConnect"
  \/ last'.op = "OnResolveResult" /\ last'.err = "ok"
  \/ /\ last'.op = "Connect" /\ last'.valid
     /\ state = "NOT_CONNECTED" /\ server_address' # "example.org"

\* C24: when the resolution fails, or DoConnect's connect of the command
\* socket fails at once, OnServerConnectionFailure is fired once and nothing
\* else, the state is NOT_CONNECTED, no retry is armed and no socket is left
\* connecting.
C24_ConnectFailureReported ==
  [][(/\ crashed' = "no"
      /\ \/ last'.op = "OnResolveResult" /\ last'.err # "ok"
         \/ DoConnectRan /\ control_socket' # "CS_CONNECTING")
       => /\ events' = <<Ev("OnServerConnectionFailure", 0, <<>>, "")>>
          /\ state' = "NOT_CONNECTED"
          /\ timers' <= timers
          /\ control_socket' # "CS_CONNECTING"
          /\ hanging_get' # "CS_CONNECTING"]_vars

\* C25: when the long-poll socket closes with an error other than a refused
\* connect while the state is CONNECTED, the socket is reconnecting when the
\* close has been handled (the wait request follows on connect), the state
\* is still CONNECTED and OnDisconnected is not fired.
C25_NotifyReconnects ==
  [][(last'.op = "OnClose" /\ last'.sock = "hanging_get"
        /\ last'.err # "ECONNREFUSED" /\ state = "CONNECTED")
       => /\ crashed' = "no"
          /\ state' = "CONNECTED"
          /\ Count(events', "OnDisconnected") = 0
          /\ hanging_get' = "CS_CONNECTING"]_vars

\* C26: on the path of a sign-in that succeeds each step takes the state to
\* the next of NOT_CONNECTED, RESOLVING, SIGNING_IN, CONNECTED: an accepted
\* Connect to a host name enters RESOLVING; a resolution that succeeds in
\* RESOLVING, its connect started, enters SIGNING_IN with the sign-in request
\* queued and not yet written; the connect's completion in SIGNING_IN writes
\* that request and stays in SIGNING_IN; a complete 200 response that carries
\* an id, read in SIGNING_IN, enters CONNECTED. The long-poll socket is not
\* connecting before, and a step that starts its connect ends in CONNECTED.
C26_SignInPath ==
  [][/\ (last'.op = "Connect" /\ last'.valid /\ state = "NOT_CONNECTED"
           /\ server_address' = "example.org")
          => /\ crashed' = "no"
             /\ state' = "RESOLVING"
             /\ UNCHANGED <<control_socket, hanging_get, wire>>
     /\ (last'.op = "OnResolveResult" /\ last'.err = "ok" /\ state = "RESOLVING"
           /\ control_socket' = "CS_CONNECTING")
          => /\ crashed' = "no"
             /\ state' = "SIGNING_IN"
             /\ onconnect_data' = SignInRequest(client_name')
             /\ wire'["control_socket"] = NoData
             /\ hanging_get' = "CS_CLOSED"
     /\ (last'.op = "OnConnect" /\ state = "SIGNING_IN")
          => /\ crashed' = "no"
             /\ state' = "SIGNING_IN"
             /\ wire'["control_socket"] = SignInRequest(client_name)
             /\ onconnect_data' = NoData
             /\ hanging_get' = "CS_CLOSED"
     /\ (last'.op = "OnRead" /\ Completed(last') /\ Status(last') = 200
           /\ PragmaOf(last').ok /\ state = "SIGNING_IN")
          => /\ crashed' = "no"
             /\ state' = "CONNECTED"
     /\ (hanging_get' = "CS_CONNECTING" /\ hanging_get # "CS_CONNECTING")
          => state' = "CONNECTED"]_vars

\* C26, its case: after a resolution of the host name the sign-in response
\* was read and the session is CONNECTED as 3 with the long-poll socket
\* connecting.
C26_Witness ==
  /\ last.op = "OnRead" /\ Completed(last) /\ Status(last) = 200
  /\ crashed = "no"
  /\ resolver = "done"
  /\ state = "CONNECTED" /\ my_id = 3
  /\ hanging_get = "CS_CONNECTING"

\* C27: a SendToPeer in CONNECTED with a peer id other than -1 and the
\* command socket closed, whose connect does not fail at once (which would end
\* the session in NOT_CONNECTED), queues the POST /message request from the
\* self id to that peer with the message as body and its length as
\* Content-Length, starts the connect, returns true and stays CONNECTED; the
\* connect's completion writes the queued request and empties the queue.
C27_SendQueuesRequest ==
  [][/\ (/\ last'.op = "SendToPeer" /\ last'.peer_id # 0 - 1
         /\ state = "CONNECTED" /\ control_socket = "CS_CLOSED"
         /\ ~(crashed' = "no" /\ state' = "NOT_CONNECTED"))
          => /\ crashed' = "no"
             /\ ret' = TRUE
             /\ state' = "CONNECTED"
             /\ control_socket' = "CS_CONNECTING"
             /\ onconnect_data'.req = "POST /message"
             /\ onconnect_data'.peer_id = my_id /\ onconnect_data'.to = last'.peer_id
             /\ onconnect_data'.content_length = Len(onconnect_data'.body)
             /\ onconnect_data'.body \in Messages
             /\ wire'["control_socket"] = NoData
     /\ (last'.op = "OnConnect" /\ onconnect_data.req = "POST /message")
          => /\ crashed' = "no"
             /\ wire'["control_socket"] = onconnect_data
             /\ onconnect_data' = NoData]_vars

\* A complete 200 response read on the long-poll socket, addressed to id.
NotifiedTo(op, id) ==
  /\ op.op = "OnHangingGetRead" /\ Completed(op) /\ Status(op) = 200
  /\ PragmaOf(op) = [ok |-> TRUE, value |-> id]

\* C28: a complete 200 notification addressed to the self id whose body
\* parses as an entry name,id,connected puts id -> name in the directory and
\* fires OnPeerConnected(id, name) when connected is not zero, and takes id
\* out of the directory and fires OnPeerDisconnected(id) when it is zero;
\* no other event is fired and no other entry of the directory changes.
C28_DirectoryDelta ==
  [][NotifiedTo(last', my_id)
       => \E entry \in {ParseEntry(BodyOf(last'))} :
            entry.ok
              => /\ crashed' = "no"
                 /\ IF entry.connected
                      THEN /\ peers' = {p \in peers : p[1] # entry.id}
                                         \cup {<<entry.id, entry.name>>}
                           /\ events' = <<Ev("OnPeerConnected", entry.id, entry.name, "")>>
                      ELSE /\ peers' = {p \in peers : p[1] # entry.id}
                           /\ events' = <<Ev("OnPeerDisconnected", entry.id, <<>>, "")>>]_vars

\* C28, its case: the notification "a,7,0" addressed to this client (3) was
\* just read; peer 7 is out of the directory and OnPeerDisconnected(7) was
\* fired.
C28_Witness ==
  /\ NotifiedTo(last, 3) /\ BodyOf(last) = <<"a", ",", "7", ",", "0">>
  /\ crashed = "no"
  /\ my_id = 3
  /\ ~Tracked(peers, 7)
  /\ events = <<Ev("OnPeerDisconnected", 7, <<>>, "")>>

\* C29: a complete 200 notification addressed to an id other than the self
\* id, whose body is not "BYE", fires OnMessageFromPeer once and nothing
\* else, with that id and the body as received, and leaves directory, self
\* id and state as they are.
C29_MessageForwarded ==
  [][(last'.op = "OnHangingGetRead" /\ Completed(last') /\ Status(last') = 200)
       => \E from \in {PragmaOf(last')} :
            (from.ok /\ from.value # my_id /\ BodyOf(last') # kByeMessage)
              => /\ crashed' = "no"
                 /\ events' = <<Ev("OnMessageFromPeer", from.value, BodyOf(last'), "")>>
                 /\ UNCHANGED <<peers, my_id, state>>]_vars

\* C29, its case: the notification with body "x" from peer 7 was just read
\* by client 3 and forwarded.
C29_Witness ==
  /\ NotifiedTo(last, 7) /\ BodyOf(last) = <<"x">>
  /\ crashed = "no"
  /\ my_id = 3
  /\ events = <<Ev("OnMessageFromPeer", 7, <<"x">>, "")>>

\* The state of socket s when the step is over.
SocketAfter(s) == IF s = "control_socket" THEN control_socket' ELSE hanging_get'

\* C30: when a read completes a response that carries Connection: close (and
\* the process goes on), the connection it came on is gone when the handler
\* returns (the socket is closed, or connecting again, with nothing written
\* or left to arrive) and OnClose has run once for it with error 0: on the
\* command socket that is one OnMessageSent(0); on the long-poll socket it
\* fires nothing and in CONNECTED the socket is reconnected. When the
\* response carries no such header no OnMessageSent is fired and the socket
\* is still connected, unless the response tore the session down.
C30_CloseHeaderSynthesizesClose ==
  [][(IsRead(last') /\ crashed' = "no")
       => \E f \in {Framer(last'.data)} :
            /\ (f.ret /\ f.close)
                 => /\ SocketAfter(last'.sock) # "CS_CONNECTED"
                    /\ net'[last'.sock] = <<>> /\ wire'[last'.sock] = NoData
                    /\ IF last'.sock = "control_socket"
                         THEN /\ Count(events', "OnMessageSent") = 1
                              /\ events'[1] = Ev("OnMessageSent", 0, <<>>, "0")
                         ELSE /\ Count(events', "OnMessageSent") = 0
                              /\ state' = "CONNECTED"
                                   => hanging_get' \in {"CS_CONNECTING", "CS_CLOSED"}
            /\ (f.ret /\ ~f.close)
                 => /\ Count(events', "OnMessageSent") = 0
                    /\ SocketAfter(last'.sock) = "CS_CONNECTED" \/ state' = "NOT_CONNECTED"]_vars

\* C30, its case: the sign-in response with Connection: close was just read;
\* the command socket is closed, OnMessageSent(0) was fired before OnSignedIn
\* and the session is CONNECTED.
C30_Witness ==
  /\ last.op = "OnRead" /\ Framer(last.data).ret /\ Framer(last.data).close
  /\ crashed = "no"
  /\ control_socket = "CS_CLOSED"
  /\ state = "CONNECTED"
  /\ Len(events) > 1 /\ events[1] = Ev("OnMessageSent", 0, <<>>, "0")
  /\ Count(events, "OnSignedIn") = 1

\* C31: a SendToPeer called while an earlier relay request is still in flight
\* (and not aborted by a failed RTC_DCHECK) leaves the session intact: the
\* state stays CONNECTED, the self id and the directory are unchanged and
\* both sockets stay as they were.
C31_RejectedSendKeepsSession ==
  [][(SendInFlight /\ last'.op = "SendToPeer" /\ crashed' = "no")
       => /\ state' = "CONNECTED"
          /\ my_id' = my_id
          /\ peers' = peers
          /\ control_socket' = control_socket
          /\ hanging_get' = hanging_get]_vars

\* C32: in every state with state CONNECTED the self id is set (not -1),
\* whatever complete 200 sign-in response the server sent.
C32_ConnectedHasSelfId ==
  state = "CONNECTED" => my_id # -1

\* C33: whenever OnRead processes a complete 200 response on the command
\* socket while the self id is unset, the state at that moment is SIGNING_IN.
C33_FirstResponseInSigningIn ==
  [][(last'.op = "OnRead" /\ my_id = -1 /\ Completed(last') /\ Status(last') = 200)
       => state = "SIGNING_IN"]_vars

\* C34: at most one deferred retry (delayed DoConnect task) is pending at any
\* time.
C34_OneRetryPending ==
  timers <= 1

\* C35: in every state the notify socket is connecting or connected only if
\* the state is CONNECTED.
C35_NotifyOpenOnlyConnected ==
  hanging_get \in {"CS_CONNECTING", "CS_CONNECTED"} => state = "CONNECTED"

\* C36: in every state of the running client with state NOT_CONNECTED the
\* self id is unset, the directory is empty and no outbound bytes are pending.
C36_DisconnectedIsClean ==
  (crashed = "no" /\ state = "NOT_CONNECTED")
    => /\ my_id = -1
       /\ peers = {}
       /\ onconnect_data = NoData

\* The bytes start with a complete response header that has no
\* Content-Length header.
HeaderWithoutLength(data) ==
  \E h \in UnframedHeaders : Len(data) >= Len(h) /\ SubSeq(data, 1, Len(h)) = h

\* C37: a read after which the buffer starts with a complete header that
\* has no Content-Length header, whatever bytes follow it, is not taken as a
\* complete response: nothing is parsed, no observer event is fired, no
\* socket is closed, the state, the self id and the directory are unchanged,
\* and all the bytes are in the receive buffer.
C37_NoLengthNeverComplete ==
  [][(IsRead(last') /\ HeaderWithoutLength(last'.data))
       => /\ crashed' = "no"
          /\ events' = <<>>
          /\ UNCHANGED <<state, my_id, peers, onconnect_data, control_socket,
                         hanging_get, timers>>
          /\ IF last'.sock = "control_socket"
               THEN control_data' = last'.data
                      /\ notification_data' = notification_data
               ELSE notification_data' = last'.data
                      /\ control_data' = control_data]_vars

\* C37, its case: the long-poll socket has read a header without
\* Content-Length that asks to close, and after it a whole response that
\* carries Content-Length; all of it is in the buffer, the socket is still
\* connected and nothing was fired.
C37_Witness ==
  /\ last.op = "OnHangingGetRead"
  /\ HeaderWithoutLength(last.data)
  /\ Find(last.data, kContentLength, 0) # NPOS
  /\ Find(last.data, kConnection \o kCloseValue, 0) # NPOS
  /\ crashed = "no"
  /\ notification_data = last.data
  /\ hanging_get = "CS_CONNECTED"
  /\ state = "CONNECTED"
  /\ events = <<>>

\* C38: whenever the command socket's connect completes (OnConnect runs),
\* there are pending outbound bytes to write.
C38_ConnectHasOutbound ==
  [][last'.op = "OnConnect" => onconnect_data # NoData]_vars

\* C38, its case: the command socket's connect has completed for a sign-out;
\* the request that was pending is written and the pending bytes are cleared.
C38_Witness ==
  /\ last.op = "OnConnect"
  /\ crashed = "no"
  /\ control_socket = "CS_CONNECTED"
  /\ wire["control_socket"].req = "GET /sign_out"
  /\ onconnect_data = NoData

====
